---- MODULE Spec2Model ----
(***************************************************************************)
(* Revenue Estimation Tool (src/app.py): the pipeline                      *)
(*   ledger -> normalisation -> date window -> insurance selection ->      *)
(*   per-procedure summary with grand total -> procedure selection ->      *)
(*   projected revenue.                                                    *)
(*                                                                         *)
(* Representation.                                                         *)
(*  - Text (charge_code, charge_description, procedure_display) is a       *)
(*    sequence of one-character strings, so that concatenation and         *)
(*    str.split(" - ", 1) are computed character by character.             *)
(*  - A missing charge_description (an empty CSV field, read by            *)
(*    pandas.read_csv as NaN) is the one-element sequence NaN; its element *)
(*    is a token, not a character.                                         *)
(*  - Dates are day numbers >= 1; NaT is what pd.to_datetime(...,          *)
(*    errors="coerce") leaves for an unparsable date.                      *)
(*  - 'paid' is an integer number of cents.  Values rounded by .round(1)   *)
(*    are integer numbers of tenths of a dollar ("dimes").  Arithmetic is  *)
(*    exact decimal arithmetic; .round(1) is round-half-to-even.           *)
(*  - NaNNum is the float NaN that the mean of an empty column yields.     *)
(***************************************************************************)
EXTENDS Integers, Sequences, FiniteSets

VARIABLES
    pc,                     \* position in the script
    raw,                    \* the ledger as read by pd.read_csv (line 9)
    df,                     \* the normalised frame (lines 24-26)
    min_date, max_date,     \* lines 33-34
    start_date, end_date,   \* line 35
    df_filtered,            \* line 40
    insurance_options,      \* line 43
    selected_insurance,     \* line 44
    df_insurance_filtered,  \* lines 47-50
    total_paid_selected,    \* line 83 (cents)
    payer_summary,          \* lines 87-107 and 123
    procedure_options,      \* line 124
    selected_procedure,     \* line 126
    selected_cpt_code,      \* line 129
    selected_procedure_desc,\* line 129
    filtered_data,          \* lines 132-135
    default_claims,         \* line 138
    entered_volume,         \* line 141
    projected_revenue,      \* line 146 (dimes)
    outcome                 \* what the run showed last: revenue, warning or error

vars == <<pc, raw, df, min_date, max_date, start_date, end_date, df_filtered,
          insurance_options, selected_insurance, df_insurance_filtered,
          total_paid_selected, payer_summary, procedure_options,
          selected_procedure, selected_cpt_code, selected_procedure_desc,
          filtered_data, default_claims, entered_volume, projected_revenue,
          outcome>>

----------------------------------------------------------------------------
(* Bounds *)

\* Longest ledger considered.
MaxRows == 3

\* Largest procedure volume the operator types into the number input.
MaxVolume == 3

----------------------------------------------------------------------------
(* Values *)

NaT == 0

NaN == <<"<NaN>">>

NaNNum == -1

None == <<"<None>">>

SEP == <<" ", "-", " ">>

GRAND_TOTAL == <<"G", "R", "A", "N", "D", " ", "T", "O", "T", "A", "L">>

EmptyText == << >>

AllInsurances == "All Insurances"

\* Unicode code points of the characters used, the order Python compares by.
CodePoint(c) ==
    CASE c = " " -> 32 [] c = "-" -> 45
      [] c = "A" -> 65 [] c = "B" -> 66 [] c = "C" -> 67 [] c = "D" -> 68
      [] c = "G" -> 71 [] c = "L" -> 76 [] c = "N" -> 78 [] c = "O" -> 79
      [] c = "R" -> 82 [] c = "T" -> 84

----------------------------------------------------------------------------
(* Helpers on sequences and numbers *)

Range(s) == {s[i] : i \in DOMAIN s}

Abs(x) == IF x < 0 THEN -x ELSE x

RECURSIVE SumSeq(_)
SumSeq(s) == IF s = << >> THEN 0 ELSE Head(s) + SumSeq(Tail(s))

Count(s, r) == Cardinality({i \in DOMAIN s : s[i] = r})

\* Python's str < str: lexicographic by code point, a proper prefix first.
RECURSIVE TextLess(_, _)
TextLess(a, b) ==
    IF b = << >> THEN FALSE
    ELSE IF a = << >> THEN TRUE
    ELSE IF Head(a) = Head(b) THEN TextLess(Tail(a), Tail(b))
    ELSE CodePoint(Head(a)) < CodePoint(Head(b))

\* Order of the groupby keys (charge_code, charge_description).
KeyLess(k, j) ==
    \/ TextLess(k[1], j[1])
    \/ k[1] = j[1] /\ TextLess(k[2], j[2])

RECURSIVE SortKeys(_)
SortKeys(S) ==
    IF S = {} THEN << >>
    ELSE LET m == CHOOSE k \in S : \A j \in S \ {k} : KeyLess(k, j)
         IN  <<m>> \o SortKeys(S \ {m})

\* numpy's round to an integer number of units: n/d to the nearest integer,
\* a tie to the even one (n >= 0, d > 0).
RoundHalfEven(n, d) ==
    LET q == n \div d
        r == n % d
    IN  IF 2 * r < d THEN q
        ELSE IF 2 * r > d THEN q + 1
        ELSE IF q % 2 = 0 THEN q ELSE q + 1

\* Series.round(1) / numpy.float64.round(1) of the amount (cents / den) cents:
\* the result in dimes.
Round1(cents, den) == RoundHalfEven(cents, 10 * den)

\* pandas' order-preserving Series.unique().
RECURSIVE Unique(_)
Unique(s) ==
    IF s = << >> THEN << >>
    ELSE LET rest == Unique(SelectSeq(Tail(s), LAMBDA x : x # Head(s)))
         IN  <<Head(s)>> \o rest

----------------------------------------------------------------------------
(* The ledger *)

Row(ins, code, desc, date, paid) ==
    [insurance |-> ins, charge_code |-> code, charge_description |-> desc,
     date |-> date, paid |-> paid]

\* The rows a ledger is drawn from: two insurances, three days, a refund
\* (negative paid), an unpaid line (paid 0), an empty description, an
\* unparsable date, texts that contain " - ", and a ledger line whose code
\* reads GRAND TOTAL.
RowPool ==
    { Row("P1", <<"A">>, <<"C">>, 1, 4),
      Row("P1", <<"A">>, <<"C">>, 3, -4),
      Row("P2", <<"A">>, <<"B", " ", "-", " ", "C">>, 1, 62),
      Row("P1", <<"A", " ", "-", " ", "B">>, <<"C">>, 1, 22),
      Row("P1", <<"A">>, <<"C">>, 1, 0),
      Row("P2", <<"A">>, NaN, 3, 4),
      Row("P1", <<"A">>, <<"C">>, NaT, 4),
      Row("P2", GRAND_TOTAL, <<"C">>, 3, 4),
      Row("P2", <<"B">>, <<"D">>, 2, 15) }

Ledgers == UNION {[1..n -> RowPool] : n \in 0..MaxRows}

----------------------------------------------------------------------------
(* Normalisation, lines 24-26 *)

NormalizeKeepZero(rows) ==
    [i \in DOMAIN rows |-> [rows[i] EXCEPT !.paid = Abs(@)]]

Normalize(rows) ==
    SelectSeq([i \in DOMAIN rows |-> [rows[i] EXCEPT !.paid = Abs(@)]],
              LAMBDA r : r.paid > 0)

ValidDates(rows) == {rows[i].date : i \in DOMAIN rows} \ {NaT}

\* Series.min() / Series.max() skip NaT; NaT when nothing is left.
MinDate(rows) ==
    IF ValidDates(rows) = {} THEN NaT
    ELSE CHOOSE d \in ValidDates(rows) : \A e \in ValidDates(rows) : d <= e

MaxDate(rows) ==
    IF ValidDates(rows) = {} THEN NaT
    ELSE CHOOSE d \in ValidDates(rows) : \A e \in ValidDates(rows) : d >= e

----------------------------------------------------------------------------
(* Date window, line 40.  A comparison with NaT is False. *)

TimeWindowOpenEnd(rows, s, e) ==
    SelectSeq(rows, LAMBDA r : r.date # NaT /\ r.date >= s /\ r.date < e)

TimeWindow(rows, s, e) ==
    SelectSeq(rows, LAMBDA r : r.date # NaT /\ r.date >= s /\ r.date <= e)

----------------------------------------------------------------------------
(* Insurance selection, lines 43-50 *)

InsuranceOptions(rows) ==
    <<AllInsurances>> \o Unique([i \in DOMAIN rows |-> rows[i].insurance])

\* The selection without the "All Insurances" branch of line 47.
InsuranceFilterNoAll(rows, choice) ==
    SelectSeq(rows, LAMBDA r : r.insurance = choice)

InsuranceFilter(rows, choice) ==
    IF choice = AllInsurances THEN rows
    ELSE SelectSeq(rows, LAMBDA r : r.insurance = choice)

----------------------------------------------------------------------------
(* Summary table, lines 87-107 *)

PaidOf(rows) == [i \in DOMAIN rows |-> rows[i].paid]

\* groupby drops the rows whose key holds NaN (dropna=True, the default).
GroupKeys(rows) ==
    {<<r.charge_code, r.charge_description>> :
        r \in {x \in Range(rows) : x.charge_description # NaN}}

Members(rows, k) ==
    SelectSeq(rows, LAMBDA r : r.charge_code = k[1] /\ r.charge_description = k[2])

\* One row of the grouped frame, before rounding: the mean is kept as the
\* fraction sum_paid / total_claims.
GroupRaw(rows, k) ==
    LET m == Members(rows, k)
    IN  [charge_code |-> k[1], charge_description |-> k[2],
         sum_paid |-> SumSeq(PaidOf(m)), total_claims |-> Len(m)]

\* Lines 87-95: group, aggregate, round avg_paid and total_paid to 1 decimal.
GroupRow(rows, k) ==
    LET g == GroupRaw(rows, k)
    IN  [charge_code |-> g.charge_code,
         charge_description |-> g.charge_description,
         avg_paid |-> Round1(g.sum_paid, g.total_claims),
         total_paid |-> Round1(g.sum_paid, 1),
         total_claims |-> g.total_claims]

Groups(rows) ==
    LET ks == SortKeys(GroupKeys(rows))
    IN  [i \in DOMAIN ks |-> GroupRow(rows, ks[i])]

\* The grand total's average weighted by the groups' claim counts.
GrandTotalWeighted(groups) ==
    [charge_code |-> GRAND_TOTAL,
     charge_description |-> EmptyText,
     avg_paid |-> IF groups = << >> THEN NaNNum
                  ELSE Round1(10 * SumSeq([i \in DOMAIN groups |->
                                              groups[i].avg_paid * groups[i].total_claims]),
                              SumSeq([i \in DOMAIN groups |-> groups[i].total_claims])),
     total_paid |-> Round1(10 * SumSeq([i \in DOMAIN groups |-> groups[i].total_paid]), 1),
     total_claims |-> SumSeq([i \in DOMAIN groups |-> groups[i].total_claims])]

\* Lines 98-104, from the rounded columns of the grouped frame.
GrandTotal(groups) ==
    [charge_code |-> GRAND_TOTAL,
     charge_description |-> EmptyText,
     avg_paid |-> IF groups = << >> THEN NaNNum
                  ELSE Round1(10 * SumSeq([i \in DOMAIN groups |-> groups[i].avg_paid]),
                              Len(groups)),
     total_paid |-> Round1(10 * SumSeq([i \in DOMAIN groups |-> groups[i].total_paid]), 1),
     total_claims |-> SumSeq([i \in DOMAIN groups |-> groups[i].total_claims])]

\* The grand total taken from the records instead of from the rounded groups.
GrandTotalFromRecords(rows) ==
    LET counted == SelectSeq(rows, LAMBDA r : r.charge_description # NaN)
    IN  [charge_code |-> GRAND_TOTAL,
         charge_description |-> EmptyText,
         avg_paid |-> IF counted = << >> THEN NaNNum
                      ELSE Round1(SumSeq(PaidOf(counted)), Len(counted)),
         total_paid |-> Round1(SumSeq(PaidOf(counted)), 1),
         total_claims |-> Len(counted)]

PayerSummaryFromRecords(rows) ==
    Append(Groups(rows), GrandTotalFromRecords(rows))

\* Lines 87-107: the grouped frame with the grand total appended.
PayerSummary(rows) ==
    Append(Groups(rows), GrandTotal(Groups(rows)))

----------------------------------------------------------------------------
(* Procedure selection, lines 123-135 *)

\* Line 123.
ProcedureDisplay(code, desc) == code \o SEP \o desc

WithDisplay(summary) ==
    [i \in DOMAIN summary |->
        [charge_code |-> summary[i].charge_code,
         charge_description |-> summary[i].charge_description,
         avg_paid |-> summary[i].avg_paid,
         total_paid |-> summary[i].total_paid,
         total_claims |-> summary[i].total_claims,
         procedure_display |->
             ProcedureDisplay(summary[i].charge_code, summary[i].charge_description)]]

\* Line 124.
ProcedureOptions(summary) ==
    LET kept == SelectSeq(summary, LAMBDA g : g.charge_code # GRAND_TOTAL)
    IN  Unique([i \in DOMAIN kept |-> kept[i].procedure_display])

\* Positions at which sep occurs in s.
Occurrences(s, sep) ==
    {i \in 1..(Len(s) - Len(sep) + 1) : SubSeq(s, i, i + Len(sep) - 1) = sep}

\* str.split(sep, 1): cut at the first occurrence of sep, if there is one.
SplitFirst(s, sep) ==
    IF Occurrences(s, sep) = {} THEN <<s>>
    ELSE LET i == CHOOSE j \in Occurrences(s, sep) :
                      \A l \in Occurrences(s, sep) : j <= l
         IN  <<SubSeq(s, 1, i - 1), SubSeq(s, i + Len(sep), Len(s))>>

\* Lines 132-135.
FilteredData(summary, code, desc) ==
    SelectSeq(summary, LAMBDA g : g.charge_code = code /\ g.charge_description = desc)

\* Line 138.
DefaultClaims(data) == IF data # << >> THEN data[1].total_claims ELSE 1

\* The projection taken from the total_paid column instead of avg_paid.
ProjectedRevenueFromTotal(data, volume) == data[1].total_paid * volume

\* Line 146.
ProjectedRevenue(data, volume) == data[1].avg_paid * volume

----------------------------------------------------------------------------
(* The script, one action per stretch of code between two widgets *)

Init ==
    /\ pc = "load"
    /\ raw \in Ledgers
    /\ df = << >>
    /\ min_date = NaT
    /\ max_date = NaT
    /\ start_date = NaT
    /\ end_date = NaT
    /\ df_filtered = << >>
    /\ insurance_options = << >>
    /\ selected_insurance = ""
    /\ df_insurance_filtered = << >>
    /\ total_paid_selected = 0
    /\ payer_summary = << >>
    /\ procedure_options = << >>
    /\ selected_procedure = None
    /\ selected_cpt_code = None
    /\ selected_procedure_desc = None
    /\ filtered_data = << >>
    /\ default_claims = 0
    /\ entered_volume = 0
    /\ projected_revenue = 0
    /\ outcome = ""

\* Lines 9-34: the frame is read, normalised, and its date span taken.
LoadAndNormalize ==
    /\ pc = "load"
    /\ df' = Normalize(raw)
    /\ min_date' = MinDate(Normalize(raw))
    /\ max_date' = MaxDate(Normalize(raw))
    /\ pc' = "date_input"
    /\ UNCHANGED <<raw, start_date, end_date, df_filtered, insurance_options,
                   selected_insurance, df_insurance_filtered, total_paid_selected,
                   payer_summary, procedure_options, selected_procedure,
                   selected_cpt_code, selected_procedure_desc, filtered_data,
                   default_claims, entered_volume, projected_revenue, outcome>>

\* Lines 35-43: the operator picks start <= end within [min_date, max_date].
DateInput ==
    /\ pc = "date_input"
    /\ min_date # NaT
    /\ \E s \in min_date..max_date : \E e \in s..max_date :
          /\ start_date' = s
          /\ end_date' = e
          /\ df_filtered' = TimeWindow(df, s, e)
          /\ insurance_options' = InsuranceOptions(TimeWindow(df, s, e))
    /\ pc' = "insurance"
    /\ UNCHANGED <<raw, df, min_date, max_date, selected_insurance,
                   df_insurance_filtered, total_paid_selected, payer_summary,
                   procedure_options, selected_procedure, selected_cpt_code,
                   selected_procedure_desc, filtered_data, default_claims,
                   entered_volume, projected_revenue, outcome>>

\* Lines 33-37 with no parsable date left: min_date and max_date are NaT, the
\* date widget cannot take them, and the handler of lines 170-171 reports it.
DateInputNaT ==
    /\ pc = "date_input"
    /\ min_date = NaT
    /\ pc' = "error"
    /\ outcome' = "Exception"
    /\ UNCHANGED <<raw, df, min_date, max_date, start_date, end_date, df_filtered,
                   insurance_options, selected_insurance, df_insurance_filtered,
                   total_paid_selected, payer_summary, procedure_options,
                   selected_procedure, selected_cpt_code, selected_procedure_desc,
                   filtered_data, default_claims, entered_volume,
                   projected_revenue>>

\* Lines 44-124: the operator picks an insurance option; the summary table and
\* the procedure options are built.
SelectInsurance ==
    /\ pc = "insurance"
    /\ \E c \in Range(insurance_options) :
          LET sel == InsuranceFilter(df_filtered, c)
              summary == WithDisplay(PayerSummary(sel))
          IN  /\ selected_insurance' = c
              /\ df_insurance_filtered' = sel
              /\ total_paid_selected' = SumSeq(PaidOf(sel))
              /\ payer_summary' = summary
              /\ procedure_options' = ProcedureOptions(summary)
    /\ pc' = "procedure"
    /\ UNCHANGED <<raw, df, min_date, max_date, start_date, end_date, df_filtered,
                   insurance_options, selected_procedure, selected_cpt_code,
                   selected_procedure_desc, filtered_data, default_claims,
                   entered_volume, projected_revenue, outcome>>

\* Lines 126-138: the operator picks one of the procedure options; it is split
\* into code and description and looked up in the summary.
SelectProcedure ==
    /\ pc = "procedure"
    /\ procedure_options # << >>
    /\ \E d \in Range(procedure_options) :
          LET parts == SplitFirst(d, SEP)
              data == FilteredData(payer_summary, parts[1], parts[2])
          IN  /\ selected_procedure' = d
              /\ selected_cpt_code' = parts[1]
              /\ selected_procedure_desc' = parts[2]
              /\ filtered_data' = data
              /\ default_claims' = DefaultClaims(data)
    /\ pc' = "volume"
    /\ UNCHANGED <<raw, df, min_date, max_date, start_date, end_date, df_filtered,
                   insurance_options, selected_insurance, df_insurance_filtered,
                   total_paid_selected, payer_summary, procedure_options,
                   entered_volume, projected_revenue, outcome>>

\* Lines 126-129 with no option to pick: st.selectbox returns None, None has no
\* split, and the handler of lines 170-171 reports the AttributeError.
SelectProcedureNone ==
    /\ pc = "procedure"
    /\ procedure_options = << >>
    /\ selected_procedure' = None
    /\ pc' = "error"
    /\ outcome' = "Exception"
    /\ UNCHANGED <<raw, df, min_date, max_date, start_date, end_date, df_filtered,
                   insurance_options, selected_insurance, df_insurance_filtered,
                   total_paid_selected, payer_summary, procedure_options,
                   selected_cpt_code, selected_procedure_desc, filtered_data,
                   default_claims, entered_volume, projected_revenue>>

\* Lines 141-149: the number input offers default_claims and takes any value
\* >= 1; the projection or the warning is shown.
EnterVolume ==
    /\ pc = "volume"
    /\ \E v \in {default_claims} \cup 1..MaxVolume :
          /\ entered_volume' = v
          /\ IF filtered_data # << >>
             THEN /\ projected_revenue' = ProjectedRevenue(filtered_data, v)
                  /\ outcome' = "Revenue"
             ELSE /\ projected_revenue' = projected_revenue
                  /\ outcome' = "NoData"
    /\ pc' = "done"
    /\ UNCHANGED <<raw, df, min_date, max_date, start_date, end_date, df_filtered,
                   insurance_options, selected_insurance, df_insurance_filtered,
                   total_paid_selected, payer_summary, procedure_options,
                   selected_procedure, selected_cpt_code, selected_procedure_desc,
                   filtered_data, default_claims>>

Next ==
    \/ LoadAndNormalize
    \/ DateInput
    \/ DateInputNaT
    \/ SelectInsurance
    \/ SelectProcedure
    \/ SelectProcedureNone
    \/ EnterVolume

Spec == Init /\ [][Next]_vars

----------------------------------------------------------------------------
(* Properties *)

\* The summary table has been built (line 107 has run).
Summarized == payer_summary # << >>

\* The rows of the summary before the appended grand total, and that row.
GroupRows == SubSeq(payer_summary, 1, Len(payer_summary) - 1)

GrandRow == payer_summary[Len(payer_summary)]

\* The selected records that groupby keeps (their description is present).
GroupedRecords == SelectSeq(df_insurance_filtered,
                            LAMBDA r : r.charge_description # NaN)

\* The ledger lines the operator's date range and insurance choice select,
\* judged on the ledger as read.
RawSelected ==
    SelectSeq(raw, LAMBDA r :
        /\ r.date # NaT /\ start_date <= r.date /\ r.date <= end_date
        /\ selected_insurance = AllInsurances \/ r.insurance = selected_insurance)

\* C1 (grand-total law): in every summary the grand-total row's total_paid is
\* the sum of the groups' rounded total_paid values, rounded to 1 decimal, and
\* its claim count is the sum of the groups' claim counts.
C1_GrandTotalLaw ==
    Summarized =>
        /\ GrandRow.total_paid =
               Round1(10 * SumSeq([i \in DOMAIN GroupRows |-> GroupRows[i].total_paid]), 1)
        /\ GrandRow.total_claims =
               SumSeq([i \in DOMAIN GroupRows |-> GroupRows[i].total_claims])

\* A summary of several groups whose sum of rounded totals is not the rounded
\* sum of the records behind them.
C1_Witness ==
    /\ Summarized
    /\ Len(GroupRows) >= 2
    /\ GroupedRecords = df_insurance_filtered
    /\ GrandRow.total_paid # Round1(total_paid_selected, 1)

\* Groups i and j of the summary differ in claim count and in average.
Unequal(i, j) ==
    /\ GroupRows[i].total_claims # GroupRows[j].total_claims
    /\ GroupRows[i].avg_paid # GroupRows[j].avg_paid

UnequalGroups ==
    /\ Len(GroupRows) >= 2
    /\ \A i \in DOMAIN GroupRows : \A j \in DOMAIN GroupRows : i # j => Unequal(i, j)

\* The grand total's avg_paid (dimes) is the exact mean of the grouped records
\* (cents / count).
AvgIsRecordMean ==
    10 * GrandRow.avg_paid * Len(GroupedRecords) = SumSeq(PaidOf(GroupedRecords))

C3_DroppedZero ==
    /\ \A i \in DOMAIN df : df[i].paid > 0
    /\ Summarized =>
          \A i \in DOMAIN GroupRows :
              LET g == GroupRows[i]
                  paying == SelectSeq(RawSelected, LAMBDA r :
                                /\ r.charge_code = g.charge_code
                                /\ r.charge_description = g.charge_description
                                /\ r.paid # 0)
                  cents == SumSeq([j \in DOMAIN paying |-> Abs(paying[j].paid)])
              IN  /\ g.total_claims = Len(paying)
                  /\ g.total_paid = Round1(cents, 1)
                  /\ g.avg_paid = Round1(cents, Len(paying))

\* A summary with a group into whose key and selection an unpaid ledger line
\* falls, next to a refund that was kept with its sign discarded.
C3_Witness ==
    /\ Summarized
    /\ \E i \in DOMAIN GroupRows : \E j \in DOMAIN RawSelected :
          /\ RawSelected[j].paid = 0
          /\ RawSelected[j].charge_code = GroupRows[i].charge_code
          /\ RawSelected[j].charge_description = GroupRows[i].charge_description
    /\ \E j \in DOMAIN RawSelected : RawSelected[j].paid < 0

\* The rows of the summary that line 132 matches against the decoded selection.
Matched ==
    {i \in DOMAIN payer_summary :
        /\ payer_summary[i].charge_code = selected_cpt_code
        /\ payer_summary[i].charge_description = selected_procedure_desc}

\* C4 (projection identity): the default volume is the matched group's claim
\* count (1 without a match), and the projected revenue is the matched group's
\* avg_paid times the entered volume, not rounded again.
C4_ProjectionIdentity ==
    /\ pc \in {"volume", "done"} =>
          /\ Matched = {} => default_claims = 1
          /\ \A i \in Matched : default_claims = payer_summary[i].total_claims
    /\ pc = "done" =>
          \A i \in Matched :
              /\ outcome = "Revenue"
              /\ projected_revenue = payer_summary[i].avg_paid * entered_volume

\* A projection for a group of two claims with a volume other than the default.
C4_Witness ==
    /\ pc = "done"
    /\ Matched # {}
    /\ default_claims = 2
    /\ entered_volume = 3
    /\ projected_revenue > 0
    /\ \A i \in Matched : payer_summary[i].avg_paid # payer_summary[i].total_paid

\* C5 (empty selection is never an exception): a run whose date range and
\* insurance choice select no record ends with the NoData warning.
C5_EmptySelectionNoData ==
    (pc \in {"done", "error"} /\ selected_insurance # "" /\ df_insurance_filtered = << >>)
        => outcome = "NoData"

\* The date range has been chosen (line 40 has run).
Windowed == pc \notin {"load", "date_input"} /\ start_date # NaT

\* C6 (time-window filter): a normalised record is in the filtered frame, as
\* often as in the normalised frame, iff its date parsed and lies in
\* [start_date, end_date]; otherwise it is not there at all.
C6_TimeWindow ==
    Windowed =>
        /\ start_date <= end_date
        /\ Range(df_filtered) \subseteq Range(df)
        /\ \A r \in Range(df) :
              Count(df_filtered, r) =
                  IF r.date # NaT /\ start_date <= r.date /\ r.date <= end_date
                  THEN Count(df, r) ELSE 0

\* A window that keeps a record dated on both its bounds, drops a later one and
\* drops one whose date did not parse.
C6_Witness ==
    /\ Windowed
    /\ \E r \in Range(df_filtered) : r.date = start_date /\ r.date = end_date
    /\ \E r \in Range(df) : r.date # NaT /\ r.date > end_date
    /\ \E r \in Range(df) : r.date = NaT

\* The full date span and "All Insurances" were chosen.
FullSpanAll ==
    /\ Summarized
    /\ start_date = min_date
    /\ end_date = max_date
    /\ selected_insurance = AllInsurances

SelectedPairs ==
    {<<r.charge_code, r.charge_description>> : r \in Range(df_insurance_filtered)}

\* C8 (set-completeness of grouping): each pair of the selected records is the
\* key of exactly one group, whose claim count is the number of selected
\* records of that pair; the claim counts sum to the number of selected records.
C8_SetComplete ==
    Summarized =>
        /\ \A k \in SelectedPairs :
              \E i \in DOMAIN GroupRows :
                  /\ <<GroupRows[i].charge_code, GroupRows[i].charge_description>> = k
                  /\ GroupRows[i].total_claims =
                         Cardinality({j \in DOMAIN df_insurance_filtered :
                             /\ df_insurance_filtered[j].charge_code = k[1]
                             /\ df_insurance_filtered[j].charge_description = k[2]})
                  /\ \A l \in DOMAIN GroupRows :
                         <<GroupRows[l].charge_code, GroupRows[l].charge_description>> = k
                             => l = i
        /\ SumSeq([i \in DOMAIN GroupRows |-> GroupRows[i].total_claims])
               = Len(df_insurance_filtered)

\* The row the grand total is: key GRAND TOTAL with the empty description.
IsGrandTotal(g) == g.charge_code = GRAND_TOTAL /\ g.charge_description = EmptyText

\* C9 (grand-total row): the grand-total row is in the summary once, last; it
\* is no procedure option and not the row the projection uses; every group is
\* a procedure option.
C9_GrandTotalExcluded ==
    Summarized =>
        /\ {i \in DOMAIN payer_summary : IsGrandTotal(payer_summary[i])}
               = {Len(payer_summary)}
        /\ GrandRow.procedure_display \notin Range(procedure_options)
        /\ pc \in {"volume", "done"} => Len(payer_summary) \notin Matched
        /\ \A i \in DOMAIN GroupRows :
              GroupRows[i].procedure_display \in Range(procedure_options)

\* C10 (selection round trip): splitting a group's display string at the first
\* " - " gives back its code and description, distinct groups have distinct
\* display strings, and the lookup finds exactly the group that was selected.
C10_RoundTrip ==
    /\ Summarized =>
          \A i \in DOMAIN GroupRows :
              /\ SplitFirst(GroupRows[i].procedure_display, SEP)
                     = <<GroupRows[i].charge_code, GroupRows[i].charge_description>>
              /\ \A j \in DOMAIN GroupRows :
                     GroupRows[i].procedure_display = GroupRows[j].procedure_display
                         => i = j
    /\ pc \in {"volume", "done"} =>
          /\ Len(filtered_data) = 1
          /\ filtered_data[1].procedure_display = selected_procedure

====
